---- MODULE Spec2Model ----
(***************************************************************************)
(* Model of fold_app_gem_v16.1.py, the XGA valuation engine.               *)
(*                                                                         *)
(* The script is a Streamlit page: every user interaction stores the new   *)
(* widget value in st.session_state, runs the widget's on_change callback  *)
(* (if any) and then re-executes the whole script top to bottom.  One      *)
(* action of the model is one such interaction together with the script    *)
(* run it triggers.                                                        *)
(*                                                                         *)
(* Numbers are exact rationals (Python floats without rounding), kept in   *)
(* the normal form  n/d * 2^e2 * 5^e5  so that the dollar figures, which   *)
(* exceed 2^31, remain representable.                                      *)
(***************************************************************************)
EXTENDS Integers, Sequences, FiniteSets, TLC

\* ------------------------------------------------------------------------
\* Bound of the model
\* ------------------------------------------------------------------------
\* number of script runs (user interactions) explored after the first run
MaxRuns == 3

\* ------------------------------------------------------------------------
\* Exact arithmetic
\* ------------------------------------------------------------------------
Abs(i) == IF i < 0 THEN -i ELSE i

Min(i, j) == IF i <= j THEN i ELSE j

RECURSIVE Gcd(_, _)
Gcd(a, b) == IF b = 0 THEN a ELSE Gcd(b, a % b)

RECURSIVE Pow(_, _)
Pow(b, k) == IF k = 0 THEN 1 ELSE b * Pow(b, k - 1)

\* exponent of the prime p in i (i # 0)
RECURSIVE Val(_, _)
Val(i, p) == IF i % p = 0 THEN 1 + Val(i \div p, p) ELSE 0

\* i with every factor p removed (i # 0)
RECURSIVE Strip(_, _)
Strip(i, p) == IF i % p = 0 THEN Strip(i \div p, p) ELSE i

Zero == [n |-> 0, d |-> 1, e2 |-> 0, e5 |-> 0]

\* the outcome of a division by zero (Python raises ZeroDivisionError)
Err == [n |-> 0, d |-> 0, e2 |-> 0, e5 |-> 0]

IsErr(a) == a.d = 0

\* normal form of  n/d * 2^e2 * 5^e5  (d > 0)
Norm(n, d, e2, e5) ==
    IF n = 0 THEN Zero
    ELSE LET an == Abs(n)
             n1 == Strip(Strip(an, 2), 5)
             d1 == Strip(Strip(d, 2), 5)
             g  == Gcd(n1, d1)
         IN [n  |-> (IF n < 0 THEN -1 ELSE 1) * (n1 \div g),
             d  |-> d1 \div g,
             e2 |-> e2 + Val(an, 2) - Val(d, 2),
             e5 |-> e5 + Val(an, 5) - Val(d, 5)]

\* the integer i
Int2Num(i) == Norm(i, 1, 0, 0)

\* the decimal literal m * 10^-k
Dec(m, k) == Norm(m, 1, -k, -k)

Mul(a, b) ==
    IF IsErr(a) \/ IsErr(b) THEN Err
    ELSE IF a.n = 0 \/ b.n = 0 THEN Zero
    ELSE LET g1 == Gcd(Abs(a.n), b.d)
             g2 == Gcd(Abs(b.n), a.d)
         IN [n  |-> (a.n \div g1) * (b.n \div g2),
             d  |-> (a.d \div g2) * (b.d \div g1),
             e2 |-> a.e2 + b.e2,
             e5 |-> a.e5 + b.e5]

Inv(a) == [n  |-> (IF a.n < 0 THEN -1 ELSE 1) * a.d,
           d  |-> Abs(a.n),
           e2 |-> -a.e2,
           e5 |-> -a.e5]

\* Python's a / b
Div(a, b) ==
    IF IsErr(a) \/ IsErr(b) THEN Err
    ELSE IF b.n = 0 THEN Err
    ELSE Mul(a, Inv(b))

\* Python's a - b
Sub(a, b) ==
    IF IsErr(a) \/ IsErr(b) THEN Err
    ELSE LET m2 == Min(a.e2, b.e2)
             m5 == Min(a.e5, b.e5)
             g  == Gcd(a.d, b.d)
             na == a.n * Pow(2, a.e2 - m2) * Pow(5, a.e5 - m5) * (b.d \div g)
             nb == b.n * Pow(2, b.e2 - m2) * Pow(5, b.e5 - m5) * (a.d \div g)
         IN Norm(na - nb, (a.d \div g) * b.d, m2, m5)

\* a <= b
Leq(a, b) == Sub(b, a).n >= 0

One == Int2Num(1)

Hundred == Int2Num(100)

Million == Int2Num(1000000)

\* ------------------------------------------------------------------------
\* Configuration and constants
\* ------------------------------------------------------------------------
BLOCKS_PER_YEAR == 2628000

FOLD_TOTAL_SUPPLY == 2000000

XGA_TOTAL_SUPPLY == 270000000

AIRDROP_RATIO == 5

\* the literal 3.40 of est_incentive_value, in tenths
INCENTIVE_ROI_TENTHS == 34

\* the constants as numbers
BlocksPerYear == Int2Num(BLOCKS_PER_YEAR)

FoldTotalSupply == Int2Num(FOLD_TOTAL_SUPPLY)

XgaTotalSupply == Int2Num(XGA_TOTAL_SUPPLY)

AirdropRatio == Int2Num(AIRDROP_RATIO)

IncentiveRoi == Dec(INCENTIVE_ROI_TENTHS, 1)

\* the cap written by the staked_lock branch
LOCKED_STAKED_PCT == 20

USD == "USD ($)"

\* the radio option "ETH" followed by the Greek letter Xi in parentheses
ETH == "ETH (Xi)"

CurrencyModes == {USD, ETH}

PresetKeys == {"market_share_pct", "adjustment_rate_pct", "success_rate_pct", "avg_bid_eth"}

SCENARIO_PRESETS ==
    [Conservative |-> [market_share_pct    |-> 10,
                       adjustment_rate_pct |-> 25,
                       success_rate_pct    |-> 30,
                       avg_bid_eth         |-> Dec(5, 2)],
     Realistic    |-> [market_share_pct    |-> 25,
                       adjustment_rate_pct |-> 40,
                       success_rate_pct    |-> 50,
                       avg_bid_eth         |-> Dec(10, 2)],
     Optimistic   |-> [market_share_pct    |-> 40,
                       adjustment_rate_pct |-> 60,
                       success_rate_pct    |-> 70,
                       avg_bid_eth         |-> Dec(15, 2)]]

PresetNames == DOMAIN SCENARIO_PRESETS

\* options of the "Load Preset" selectbox
SelectorOptions == PresetNames \cup {"Custom"}

\* ------------------------------------------------------------------------
\* Values the user enters in the widgets (all inside the widgets' ranges)
\* ------------------------------------------------------------------------
MarketShareValues == {0, 10, 25, 40}

AdjustmentRateValues == {25, 40, 60}

SuccessRateValues == {30, 50, 70}

AvgBidValues == {Dec(5, 2), Dec(10, 2), Dec(15, 2)}

EthPriceValues == {Int2Num(0), Int2Num(3200)}

PeRatioValues == {20, 60}

CurrentPriceValues == {Int2Num(0), Dec(75, 2)}

StakedPctValues == {0, 50, 100}

UserFoldValues == {Int2Num(0), Int2Num(5000)}

XgaMcapValues == {300, 900}

\* ------------------------------------------------------------------------
\* Helper functions
\* ------------------------------------------------------------------------
\* the division without its guard
safe_divide_Unguarded(numerator, denominator) == Div(numerator, denominator)

safe_divide(numerator, denominator) ==
    IF denominator # Zero THEN Div(numerator, denominator) ELSE Zero

total_slots(market_share) == Mul(BlocksPerYear, market_share)

adjustable(market_share, adjustment_rate) ==
    Mul(total_slots(market_share), adjustment_rate)

successful(market_share, adjustment_rate, success_rate) ==
    Mul(adjustable(market_share, adjustment_rate), success_rate)

captured_value(market_share, adjustment_rate, success_rate, avg_bid) ==
    Mul(successful(market_share, adjustment_rate, success_rate), avg_bid)

\* the kickback kept instead of paid out
net_revenue_KickbackKept(market_share, adjustment_rate, success_rate, avg_bid, kickback_rate) ==
    Mul(captured_value(market_share, adjustment_rate, success_rate, avg_bid),
        kickback_rate)

\* the kickback added instead of deducted
net_revenue_KickbackAdded(market_share, adjustment_rate, success_rate, avg_bid, kickback_rate) ==
    Mul(captured_value(market_share, adjustment_rate, success_rate, avg_bid),
        Sub(One, Sub(Zero, kickback_rate)))

net_revenue(market_share, adjustment_rate, success_rate, avg_bid, kickback_rate) ==
    Mul(captured_value(market_share, adjustment_rate, success_rate, avg_bid),
        Sub(One, kickback_rate))

calculate_vault_revenue_eth(market_share, adjustment_rate, success_rate, avg_bid, kickback_rate, fold_share) ==
    Mul(net_revenue(market_share, adjustment_rate, success_rate, avg_bid,
                    kickback_rate),
        fold_share)

\* st.session_state after the initialization block; preset_selector is the
\* selectbox's own state (index=1)
Defaults ==
    [market_share_pct    |-> SCENARIO_PRESETS["Realistic"]["market_share_pct"],
     adjustment_rate_pct |-> SCENARIO_PRESETS["Realistic"]["adjustment_rate_pct"],
     success_rate_pct    |-> SCENARIO_PRESETS["Realistic"]["success_rate_pct"],
     avg_bid_eth         |-> SCENARIO_PRESETS["Realistic"]["avg_bid_eth"],
     eth_price           |-> Int2Num(3200),
     pe_ratio            |-> 20,
     current_price       |-> Dec(75, 2),
     staked_pct          |-> 50,
     kickback_pct        |-> 30,
     fold_share_pct      |-> 90,
     staked_lock         |-> FALSE,
     user_fold           |-> Int2Num(5000),
     currency_mode       |-> USD,
     preset_selector     |-> "Realistic"]

\* a callback that reloads the startup values of the other fields as well
update_from_preset_Reset(s) ==
    LET selected == s.preset_selector
    IN IF selected \in PresetNames
       THEN [k \in DOMAIN s |->
                IF k \in PresetKeys THEN SCENARIO_PRESETS[selected][k]
                ELSE IF k \in {"preset_selector", "currency_mode"} THEN s[k]
                ELSE Defaults[k]]
       ELSE s

\* a callback that leaves avg_bid_eth out
update_from_preset_Partial(s) ==
    LET selected == s.preset_selector
    IN IF selected \in PresetNames
       THEN [k \in DOMAIN s |->
                IF k \in PresetKeys \ {"avg_bid_eth"}
                THEN SCENARIO_PRESETS[selected][k] ELSE s[k]]
       ELSE s

\* on_change callback of the preset selectbox
update_from_preset(s) ==
    LET selected == s.preset_selector
    IN IF selected \in PresetNames
       THEN [k \in DOMAIN s |->
                IF k \in PresetKeys THEN SCENARIO_PRESETS[selected][k] ELSE s[k]]
       ELSE s

\* ------------------------------------------------------------------------
\* The script
\* ------------------------------------------------------------------------
\* default of the XGA target market cap slider (value=300)
DefaultXgaMcap == 300

\* the sidebar without the staked_lock branch's assignment
SidebarControls_NoCap(s, radio) == [s EXCEPT !.currency_mode = radio]

\* the sidebar: the radio's value is stored in currency_mode, and the
\* staked_lock branch overwrites staked_pct
SidebarControls(s, radio) ==
    LET s1 == [s EXCEPT !.currency_mode = radio]
    IN IF s1.staked_lock
       THEN [s1 EXCEPT !.staked_pct = LOCKED_STAKED_PCT]
       ELSE s1

\* x / 100.0 of the "Normalize Inputs" step
Pct(x) == Div(Int2Num(x), Hundred)

staked_amt(s) == Mul(FoldTotalSupply, Pct(s.staked_pct))

\* arguments and result of the main logic's call of calculate_vault_revenue_eth
VaultCall(market_share, adjustment_rate, success_rate, avg_bid, kickback_rate, fold_share) ==
    [market_share    |-> market_share,
     adjustment_rate |-> adjustment_rate,
     success_rate    |-> success_rate,
     avg_bid         |-> avg_bid,
     kickback_rate   |-> kickback_rate,
     fold_share      |-> fold_share,
     result          |-> calculate_vault_revenue_eth(market_share, adjustment_rate,
                             success_rate, avg_bid, kickback_rate, fold_share)]

\* kickback_pct and fold_share_pct are always in st.session_state (the
\* initialization block sets them), so the 0.30 / 0.90 fallbacks are never taken
MainCall(s) ==
    VaultCall(Pct(s.market_share_pct), Pct(s.adjustment_rate_pct),
              Pct(s.success_rate_pct), s.avg_bid_eth,
              Pct(s.kickback_pct), Pct(s.fold_share_pct))

\* a conversion whose USD branch forgets the ETH price
vault_rev_display_Unconverted(is_usd, vault_rev_eth, eth_p) == vault_rev_eth

\* both branches of the currency conversion
vault_rev_display(is_usd, vault_rev_eth, eth_p) ==
    IF is_usd THEN Mul(vault_rev_eth, eth_p) ELSE vault_rev_eth

current_val_ref(is_usd, current_price, eth_p) ==
    IF is_usd THEN current_price ELSE safe_divide(current_price, eth_p)

yield_per_token(is_usd, rev_display, vault_rev_eth, staked) ==
    IF is_usd THEN safe_divide(rev_display, staked)
              ELSE safe_divide(vault_rev_eth, staked)

\* implied_mcap and implied_price
implied_price(is_usd, rev_display, vault_rev_eth, pe_ratio) ==
    IF is_usd THEN safe_divide(Mul(rev_display, Int2Num(pe_ratio)), FoldTotalSupply)
              ELSE safe_divide(Mul(vault_rev_eth, Int2Num(pe_ratio)), FoldTotalSupply)

div_yield(ypt, val_ref) == safe_divide(ypt, val_ref)

upside(price, val_ref) ==
    Mul(safe_divide(Sub(price, val_ref), val_ref), Hundred)

\* the locals of the main logic, given the ones computed first
YieldAndUser(s, call, is_usd, rev_display, staked, val_ref, ypt, price) ==
    [is_usd            |-> is_usd,
     ar                |-> call.adjustment_rate,
     sr                |-> call.success_rate,
     kr                |-> call.kickback_rate,
     fs                |-> call.fold_share,
     eth_p             |-> s.eth_price,
     staked_amt        |-> staked,
     call              |-> call,
     vault_rev_eth     |-> call.result,
     vault_rev_display |-> rev_display,
     yield_per_token   |-> ypt,
     implied_price     |-> price,
     current_val_ref   |-> val_ref,
     div_yield         |-> div_yield(ypt, val_ref),
     upside            |-> upside(price, val_ref),
     user_fold         |-> s.user_fold,
     my_income_annual  |-> Mul(s.user_fold, ypt),
     my_portfolio_val  |-> Mul(s.user_fold, price)]

\* the if/else of the currency conversion
CurrencyConversion(s, call, is_usd, rev_display, staked) ==
    YieldAndUser(s, call, is_usd, rev_display, staked,
                 current_val_ref(is_usd, s.current_price, s.eth_price),
                 yield_per_token(is_usd, rev_display, call.result, staked),
                 implied_price(is_usd, rev_display, call.result, s.pe_ratio))

\* main logic: the locals computed from st.session_state
MainLogic(s) ==
    CurrencyConversion(s, MainCall(s), s.currency_mode = USD,
                       vault_rev_display(s.currency_mode = USD, MainCall(s).result,
                                         s.eth_price),
                       staked_amt(s))

\* Python's range(start, stop, step) as a sequence (step > 0)
Range(start, stop, step) ==
    [i \in 1..(IF stop > start THEN (stop - start + step - 1) \div step ELSE 0)
        |-> start + (i - 1) * step]

\* a range that stops one step early
ms_range_Short == Range(5, 50, 5)

ms_range == Range(5, 55, 5)

\* dashboard tab: the market-share sensitivity series, m are the locals of
\* the main logic
Sensitivity(s, m) ==
    [i \in DOMAIN ms_range |->
        LET x     == ms_range[i]
            r_eth == calculate_vault_revenue_eth(Div(Int2Num(x), Hundred),
                                                 m.ar, m.sr, s.avg_bid_eth, m.kr, m.fs)
            r_val == IF m.is_usd THEN Mul(r_eth, m.eth_p) ELSE r_eth
            mcap  == Mul(r_val, Int2Num(s.pe_ratio))
        IN [share |-> x, price |-> safe_divide(mcap, FoldTotalSupply)]]

\* rewards whose capital base is the reference price in display currency
XgaRewards_DisplayRef(s, m, mcap_input) ==
    LET xga_mcap  == Mul(Int2Num(mcap_input), Million)
        xga_price == Div(xga_mcap, XgaTotalSupply)
        est_airdrop_tokens == Mul(m.user_fold, AirdropRatio)
        est_airdrop_value  == Mul(est_airdrop_tokens, xga_price)
        base_capital == Mul(m.user_fold, m.current_val_ref)
        est_incentive_value == Mul(base_capital, IncentiveRoi)
    IN [xga_price       |-> xga_price,
        airdrop_tokens  |-> est_airdrop_tokens,
        airdrop_value   |-> est_airdrop_value,
        incentive_value |-> est_incentive_value]

\* XGA rewards tab
XgaRewards(s, m, mcap_input) ==
    LET xga_mcap  == Mul(Int2Num(mcap_input), Million)
        xga_price == Div(xga_mcap, XgaTotalSupply)
        est_airdrop_tokens == Mul(m.user_fold, AirdropRatio)
        est_airdrop_value  == Mul(est_airdrop_tokens, xga_price)
        base_capital == Mul(m.user_fold, s.current_price)
        est_incentive_value == Mul(base_capital, IncentiveRoi)
    IN [xga_price       |-> xga_price,
        airdrop_tokens  |-> est_airdrop_tokens,
        airdrop_value   |-> est_airdrop_value,
        incentive_value |-> est_incentive_value]

\* the figures one script run shows: s is st.session_state as the sidebar
\* left it, m the locals of the main logic
Figures(m, x) ==
       [vault_revenue_eth     |-> m.vault_rev_eth,
        vault_revenue_display |-> m.vault_rev_display,
        staked_amount         |-> m.staked_amt,
        yield_per_token       |-> m.yield_per_token,
        implied_price         |-> m.implied_price,
        reference_price       |-> m.current_val_ref,
        dividend_yield        |-> m.div_yield,
        upside_pct            |-> m.upside,
        annual_income         |-> m.my_income_annual,
        portfolio_value       |-> m.my_portfolio_val,
        xga_price             |-> x.xga_price,
        airdrop_tokens        |-> x.airdrop_tokens,
        airdrop_value         |-> x.airdrop_value,
        incentive_value       |-> x.incentive_value]

Snapshot(s, m, mcap_input) == Figures(m, XgaRewards(s, m, mcap_input))

\* main logic and tabs together
Render(s, mcap_input) == Snapshot(s, MainLogic(s), mcap_input)

\* what a script run leaves behind: st.session_state, the figures shown and
\* the call of calculate_vault_revenue_eth
Outcome(s, m, mcap_input) ==
    [sess |-> s, res |-> Snapshot(s, m, mcap_input), call |-> m.call]

\* a script whose main logic reads staked_pct before the staked_lock branch
\* has overwritten it
ScriptRun_StaleRead(s, radio, mcap_input) ==
    [Outcome([s EXCEPT !.currency_mode = radio],
             MainLogic([s EXCEPT !.currency_mode = radio]), mcap_input)
        EXCEPT !.sess = SidebarControls(s, radio)]

\* one execution of the script: s is st.session_state as the interaction
\* and its callback left it, radio and mcap_input the two unkeyed widgets
ScriptRun(s, radio, mcap_input) ==
    Outcome(SidebarControls(s, radio), MainLogic(SidebarControls(s, radio)),
            mcap_input)

\* ------------------------------------------------------------------------
\* State
\* ------------------------------------------------------------------------
VARIABLES
    session_state,   \* st.session_state (InputState and preset_selector)
    base_currency,   \* value of the "Base Currency" radio
    xga_mcap_input,  \* value of the "Target MCAP" slider
    results,         \* the figures of the last script run
    vault_call,      \* the last call of calculate_vault_revenue_eth
    event,           \* what triggered the last script run
    runs             \* script runs since the first one

vars == <<session_state, base_currency, xga_mcap_input, results, vault_call,
          event, runs>>

\* the session after the first script run
Init ==
    /\ base_currency = USD
    /\ xga_mcap_input = DefaultXgaMcap
    /\ session_state = ScriptRun(Defaults, USD, DefaultXgaMcap).sess
    /\ results = ScriptRun(Defaults, USD, DefaultXgaMcap).res
    /\ vault_call = ScriptRun(Defaults, USD, DefaultXgaMcap).call
    /\ event = "first_run"
    /\ runs = 0

\* the state after a script run with outcome r
Finish(r) ==
    /\ session_state' = r.sess
    /\ results' = r.res
    /\ vault_call' = r.call

\* the rerun every interaction triggers
Rerun(ev, s, radio, xga) ==
    /\ runs < MaxRuns
    /\ runs' = runs + 1
    /\ event' = ev
    /\ base_currency' = radio
    /\ xga_mcap_input' = xga
    /\ Finish(ScriptRun(s, radio, xga))

\* a keyed widget's new value is in st.session_state before the rerun
SetField(key, v) ==
    /\ session_state[key] # v
    /\ Rerun(key, [session_state EXCEPT ![key] = v], base_currency, xga_mcap_input)

SetCurrency(mode) ==
    /\ mode # base_currency
    /\ Rerun("currency_mode", session_state, mode, xga_mcap_input)

SelectPreset(name) ==
    /\ name # session_state.preset_selector
    /\ Rerun("preset_selector",
             update_from_preset([session_state EXCEPT !.preset_selector = name]),
             base_currency, xga_mcap_input)

SetEthPrice(v) == SetField("eth_price", v)

ToggleStakedLock == SetField("staked_lock", ~session_state.staked_lock)

\* the slider exists only while the lock is off
SetStakedPct(v) ==
    /\ ~session_state.staked_lock
    /\ SetField("staked_pct", v)

SetUserFold(v) == SetField("user_fold", v)

SetMarketShare(v) == SetField("market_share_pct", v)

SetAdjustmentRate(v) == SetField("adjustment_rate_pct", v)

SetSuccessRate(v) == SetField("success_rate_pct", v)

SetAvgBid(v) == SetField("avg_bid_eth", v)

SetPeRatio(v) == SetField("pe_ratio", v)

SetCurrentPrice(v) == SetField("current_price", v)

SetXgaMcap(v) ==
    /\ v # xga_mcap_input
    /\ Rerun("xga_mcap_input", session_state, base_currency, v)

\* a rerun with no widget changed (the app's "Rerun" command)
RerunOnly == Rerun("rerun", session_state, base_currency, xga_mcap_input)

Next ==
    \/ \E mode \in CurrencyModes : SetCurrency(mode)
    \/ \E name \in SelectorOptions : SelectPreset(name)
    \/ \E v \in EthPriceValues : SetEthPrice(v)
    \/ ToggleStakedLock
    \/ \E v \in StakedPctValues : SetStakedPct(v)
    \/ \E v \in UserFoldValues : SetUserFold(v)
    \/ \E v \in MarketShareValues : SetMarketShare(v)
    \/ \E v \in AdjustmentRateValues : SetAdjustmentRate(v)
    \/ \E v \in SuccessRateValues : SetSuccessRate(v)
    \/ \E v \in AvgBidValues : SetAvgBid(v)
    \/ \E v \in PeRatioValues : SetPeRatio(v)
    \/ \E v \in CurrentPriceValues : SetCurrentPrice(v)
    \/ \E v \in XgaMcapValues : SetXgaMcap(v)
    \/ RerunOnly

Spec == Init /\ [][Next]_vars

\* ------------------------------------------------------------------------
\* calculate_vault_revenue_eth on its own: the arguments are drawn from
\* fractions and bids, the session stays as the first run left it
\* ------------------------------------------------------------------------
RateValues == {Int2Num(0), Dec(3, 1), Int2Num(1)}

BidValues == {Int2Num(0), Dec(5, 2), Int2Num(2)}

ArgNames == {"market_share", "adjustment_rate", "success_rate", "avg_bid", "kickback_rate", "fold_share"}

ArgValues(a) == IF a = "avg_bid" THEN BidValues ELSE RateValues

\* the call c with argument a replaced by v
CallWith(c, a, v) ==
    VaultCall(IF a = "market_share" THEN v ELSE c.market_share,
              IF a = "adjustment_rate" THEN v ELSE c.adjustment_rate,
              IF a = "success_rate" THEN v ELSE c.success_rate,
              IF a = "avg_bid" THEN v ELSE c.avg_bid,
              IF a = "kickback_rate" THEN v ELSE c.kickback_rate,
              IF a = "fold_share" THEN v ELSE c.fold_share)

InitRev ==
    /\ base_currency = USD
    /\ xga_mcap_input = DefaultXgaMcap
    /\ session_state = ScriptRun(Defaults, USD, DefaultXgaMcap).sess
    /\ results = ScriptRun(Defaults, USD, DefaultXgaMcap).res
    /\ event = "first_run"
    /\ runs = 0
    /\ \E ms \in RateValues, ar \in RateValues, sr \in RateValues,
          bid \in BidValues, kr \in RateValues, fs \in RateValues :
            vault_call = VaultCall(ms, ar, sr, bid, kr, fs)

CallVaultRevenue(a, v) ==
    /\ vault_call[a] # v
    /\ vault_call' = CallWith(vault_call, a, v)
    /\ UNCHANGED <<session_state, base_currency, xga_mcap_input, results, event, runs>>

NextRev == \E a \in ArgNames : \E v \in ArgValues(a) : CallVaultRevenue(a, v)

SpecRev == InitRev /\ [][NextRev]_vars

TypeOK ==
    /\ base_currency \in CurrencyModes
    /\ session_state.currency_mode = base_currency
    /\ session_state.preset_selector \in SelectorOptions
    /\ runs \in 0..MaxRuns

\* ------------------------------------------------------------------------
\* Properties
\* ------------------------------------------------------------------------
InputFields == DOMAIN Defaults \ {"preset_selector"}

\* C1: whenever a script run has read the inputs with staked_lock set,
\* staked_pct is 20 and the staked amount used is 2,000,000 * 20 / 100 =
\* 400,000 -- from the very run the toggle triggers.
C1_LockForcesStakedPct ==
    session_state.staked_lock =>
        /\ session_state.staked_pct = 20
        /\ results.staked_amount = Int2Num(400000)

\* the run triggered by switching the lock on
C1_Witness ==
    /\ event = "staked_lock"
    /\ session_state.staked_lock
    /\ session_state.staked_pct = 20
    /\ results.staked_amount = Int2Num(400000)

\* C2: selecting a known preset overwrites exactly market_share_pct,
\* adjustment_rate_pct, success_rate_pct and avg_bid_eth with the preset's
\* values and leaves every other input field as it was; "Custom" (or a name
\* that is no preset) changes no field.
C2_PresetFrame ==
    [][/\ \A name \in SelectorOptions :
            SelectPreset(name) =>
                /\ \A k \in InputFields \ PresetKeys :
                        session_state'[k] = session_state[k]
                /\ \A k \in PresetKeys :
                        session_state'[k] =
                            IF name \in PresetNames
                            THEN SCENARIO_PRESETS[name][k]
                            ELSE session_state[k]
       /\ LET s == [session_state EXCEPT !.preset_selector = "Aggressive"]
          IN update_from_preset(s) = s
      ]_vars

\* a preset was just loaded into a session whose other fields are no longer
\* the startup values
C2_Witness ==
    /\ event = "preset_selector"
    /\ session_state.preset_selector = "Optimistic"
    /\ session_state.market_share_pct = 40
    /\ session_state.avg_bid_eth = Dec(15, 2)
    /\ session_state.staked_pct = 0
    /\ session_state.eth_price = Int2Num(0)

\* C8: a script run that no widget change triggered leaves every input
\* field as it was and shows the same figures as the run before it, also
\* while staked_lock is set.
C8_RerunIdempotent ==
    [][RerunOnly =>
          /\ session_state' = session_state
          /\ results' = results
      ]_vars

\* a rerun of a locked session
C8_Witness ==
    /\ event = "rerun"
    /\ session_state.staked_lock
    /\ results.staked_amount = Int2Num(400000)

\* the four preset keys in every order
KeyOrders ==
    {p \in [1..4 -> PresetKeys] : \A i, j \in 1..4 : i # j => p[i] # p[j]}

\* st.session_state after the widget of key k was set to the preset's value
\* and the script was rerun
ManualEdit(s, name, k) ==
    SidebarControls([s EXCEPT ![k] = SCENARIO_PRESETS[name][k]], base_currency)

\* st.session_state after the four widgets were set in the order p
ManualEdits(s, name, p) ==
    ManualEdit(ManualEdit(ManualEdit(ManualEdit(s, name, p[1]), name, p[2]),
                          name, p[3]), name, p[4])

\* C3: for every known preset, selecting it and recomputing shows the same
\* figures as setting the four fields by hand to the preset's values, in
\* any order, and recomputing.
C3_PresetEqualsManual ==
    \A name \in PresetNames :
        \A f \in {ManualEdits(session_state, name, p) : p \in KeyOrders} :
            Render(f, xga_mcap_input) =
                ScriptRun(update_from_preset(
                              [session_state EXCEPT !.preset_selector = name]),
                          base_currency, xga_mcap_input).res

\* the Conservative preset was just loaded: 2,628,000 * 0.10 * 0.25 * 0.30 *
\* 0.05 * 0.70 * 0.90 = 620.865 ETH
C3_Witness ==
    /\ event = "preset_selector"
    /\ session_state.preset_selector = "Conservative"
    /\ session_state.avg_bid_eth = Dec(5, 2)
    /\ results.vault_revenue_eth = Dec(620865, 3)

\* C4: with eth_price > 0, the revenue shown in ETH mode times eth_price is
\* the revenue shown for the same inputs in USD mode.
C4_CurrencyRoundTrip ==
    session_state.eth_price.n > 0 =>
        Mul(Render(SidebarControls(session_state, ETH),
                   xga_mcap_input).vault_revenue_display,
            session_state.eth_price)
        = Render(SidebarControls(session_state, USD),
                 xga_mcap_input).vault_revenue_display

\* the startup inputs shown in ETH mode: 8,278.2 ETH
C4_Witness ==
    /\ base_currency = ETH
    /\ session_state.eth_price = Int2Num(3200)
    /\ results.vault_revenue_display = Dec(82782, 1)

\* C5: no figure of a script run is the outcome of a division by zero;
\* safe_divide(x, 0) = 0 for every x, 0 included; staked_pct = 0 gives
\* yield_per_token = 0; a reference price of 0 gives dividend_yield = 0 and
\* upside_pct = 0; the reference price is current_price in USD mode, 0 in
\* ETH mode with eth_price = 0 and current_price / eth_price otherwise.
C5_ZeroDenominators ==
    /\ \A f \in DOMAIN results : ~IsErr(results[f])
    /\ \A x \in {Zero, Int2Num(-7), Dec(75, 2), results.vault_revenue_display} :
            safe_divide(x, Zero) = Zero
    /\ session_state.staked_pct = 0 => results.yield_per_token = Zero
    /\ results.reference_price = Zero =>
            /\ results.dividend_yield = Zero
            /\ results.upside_pct = Zero
    /\ results.reference_price =
            IF base_currency = USD THEN session_state.current_price
            ELSE IF session_state.eth_price = Zero THEN Zero
            ELSE Div(session_state.current_price, session_state.eth_price)

\* ETH mode with eth_price = 0 and nothing staked
C5_Witness ==
    /\ base_currency = ETH
    /\ session_state.eth_price = Zero
    /\ session_state.staked_pct = 0
    /\ session_state.current_price = Dec(75, 2)
    /\ results.vault_revenue_display # Zero
    /\ results.yield_per_token = Zero
    /\ results.reference_price = Zero
    /\ results.upside_pct = Zero

\* C6: on the startup inputs the script computes captured value 13,140 ETH,
\* net revenue 9,198 ETH, vault revenue 8,278.2 ETH = 26,490,240 USD,
\* staked amount 1,000,000, yield per token 26.49024 USD and implied price
\* 264.9024 USD.
C6_DefaultsExample ==
    (session_state = Defaults /\ base_currency = USD) =>
        /\ captured_value(vault_call.market_share, vault_call.adjustment_rate,
                          vault_call.success_rate, vault_call.avg_bid)
             = Int2Num(13140)
        /\ net_revenue(vault_call.market_share, vault_call.adjustment_rate,
                       vault_call.success_rate, vault_call.avg_bid,
                       vault_call.kickback_rate)
             = Int2Num(9198)
        /\ vault_call.result = Dec(82782, 1)
        /\ results.vault_revenue_eth = Dec(82782, 1)
        /\ results.vault_revenue_display = Int2Num(26490240)
        /\ results.staked_amount = Int2Num(1000000)
        /\ results.yield_per_token = Dec(2649024, 5)
        /\ results.implied_price = Dec(2649024, 4)

\* the first script run
C6_Witness ==
    /\ event = "first_run"
    /\ session_state = Defaults
    /\ results.vault_revenue_display = Int2Num(26490240)

\* C7: with fractions as rates and a non-negative bid the vault revenue is
\* non-negative, does not decrease when market_share, adjustment_rate,
\* success_rate, avg_bid or fold_share alone is raised, and does not
\* increase when kickback_rate alone is raised.
C7_Monotone ==
    /\ Leq(Zero, vault_call.result)
    /\ \A a \in ArgNames : \A v \in ArgValues(a) :
            Leq(vault_call[a], v) =>
                IF a = "kickback_rate"
                THEN Leq(CallWith(vault_call, a, v).result, vault_call.result)
                ELSE Leq(vault_call.result, CallWith(vault_call, a, v).result)

\* a call whose revenue is positive and moves with every argument:
\* 2,628,000 * 0.3^3 * 0.05 * 0.7 * 0.3 = 745.038
C7_Witness ==
    /\ vault_call = VaultCall(Dec(3, 1), Dec(3, 1), Dec(3, 1), Dec(5, 2),
                              Dec(3, 1), Dec(3, 1))
    /\ vault_call.result = Dec(745038, 3)

\* C9: the XGA figures are functions of user_fold, current_price and the
\* target market cap alone: xga_price = mcap / 270,000,000, airdrop_tokens
\* = user_fold * 5, airdrop_value = airdrop_tokens * xga_price and
\* incentive_value = user_fold * current_price * 3.40 in either currency mode.
C9_XgaFigures ==
    /\ results.xga_price =
            Div(Int2Num(xga_mcap_input * 1000000), Int2Num(270000000))
    /\ results.airdrop_tokens = Mul(session_state.user_fold, Int2Num(5))
    /\ results.airdrop_value = Mul(results.airdrop_tokens, results.xga_price)
    /\ results.incentive_value =
            Mul(Mul(session_state.user_fold, session_state.current_price),
                Dec(340, 2))

\* ETH mode: 5000 FOLD at 0.75 USD give 12,750 USD, and 25,000 XGA at
\* 300M / 270M give 250,000 / 9 USD
C9_Witness ==
    /\ base_currency = ETH
    /\ session_state.eth_price = Int2Num(3200)
    /\ results.reference_price # session_state.current_price
    /\ results.incentive_value = Int2Num(12750)
    /\ results.airdrop_value = Div(Int2Num(250000), Int2Num(9))

\* C10: the sensitivity series has the 10 points 5, 10, ..., 50 in
\* ascending order; each price is the implied price the main logic computes
\* when market_share_pct alone is replaced by the point's share, so the
\* point at the current share shows the current implied price; the script
\* run that draws it leaves the inputs as they were.
C10_Sensitivity ==
    LET sens == Sensitivity(session_state, MainLogic(session_state))
    IN /\ DOMAIN sens = 1..10
       /\ \A i \in DOMAIN sens :
            /\ sens[i].share = 5 * i
            /\ sens[i].price =
                 MainLogic([session_state EXCEPT !.market_share_pct = 5 * i]).implied_price
            /\ sens[i].share = session_state.market_share_pct =>
                 sens[i].price = results.implied_price
       /\ SidebarControls(session_state, base_currency) = session_state

\* ETH mode at 40% market share: the eighth point is the implied price shown
C10_Witness ==
    /\ base_currency = ETH
    /\ session_state.market_share_pct = 40
    /\ results.implied_price # Zero
    /\ Sensitivity(session_state, MainLogic(session_state))[8].price
         = results.implied_price

====
